---------------------------- MODULE Spec2Model ----------------------------
(***************************************************************************)
(* Model of stan::math::inv_chi_square_cdf                                 *)
(* (src/stan/math/prim/scal/prob/inv_chi_square_cdf.hpp).                  *)
(*                                                                         *)
(* One call of the function is one behaviour: Init draws the two operands  *)
(* and their differentiability, and the actions are the statements of the  *)
(* function body in program order.                                         *)
(*                                                                         *)
(* A double is a pair <<num, den>> in lowest terms with den >= 0:          *)
(*   <<p, q>>, q > 0   the finite value p/q                                *)
(*   <<1, 0>>          +infinity                                           *)
(*   <<-1, 0>>         -infinity                                           *)
(*   <<0, 0>>          NaN                                                 *)
(* The arithmetic follows IEEE-754 on the special values (x/0, 0*inf,      *)
(* inf-inf, NaN propagation) and is exact on finite values.                *)
(***************************************************************************)
EXTENDS Integers, Sequences, FiniteSets, TLC

(* Largest length of a container operand drawn by Init. *)
MaxLen == 2

---------------------------------------------------------------------------
(* double values and arithmetic *)

NaN == <<0, 0>>
Infinity == <<1, 0>>
NegInfinity == <<-1, 0>>
Zero == <<0, 1>>
One == <<1, 1>>
Two == <<2, 1>>
Four == <<4, 1>>
NegOne == <<-1, 1>>
NegTwo == <<-2, 1>>
OneHalf == <<1, 2>>
Tiny == <<1, 2000>>

Abs(k) == IF k < 0 THEN -k ELSE k

Sgn(k) == IF k > 0 THEN 1 ELSE IF k < 0 THEN -1 ELSE 0

RECURSIVE Gcd(_, _)
Gcd(a, b) == IF b = 0 THEN a ELSE Gcd(b, a % b)

(* lowest terms; a zero denominator keeps only the sign of the numerator *)
Norm(p, q) ==
    IF q = 0 THEN <<Sgn(p), 0>>
    ELSE LET g == Gcd(Abs(p), q) IN <<p \div g, q \div g>>

IsNaN(a) == a = NaN

IsFinite(a) == a[2] > 0

(* a * b : 0 * inf and NaN * x are NaN *)
Mul(a, b) == Norm(a[1] * b[1], a[2] * b[2])

(* a + b : inf + -inf and NaN + x are NaN *)
Add(a, b) ==
    IF a[2] = 0 /\ b[2] = 0
    THEN (IF a = b THEN a ELSE NaN)
    ELSE Norm(a[1] * b[2] + b[1] * a[2], a[2] * b[2])

Neg(a) == <<-a[1], a[2]>>

Sub(a, b) == Add(a, Neg(b))

(* a / b : x/0 is +inf for x > 0, 0/0 is NaN, x/inf is 0 *)
Div(a, b) ==
    LET r == IF b[1] > 0 THEN <<b[2], b[1]>>
             ELSE IF b[1] < 0 THEN <<-b[2], -b[1]>>
             ELSE IF b[2] = 0 THEN NaN ELSE Infinity
    IN Mul(a, r)

(* a > 0, false for NaN *)
GtZero(a) == a[1] > 0

(* a >= 0, false for NaN *)
GeZero(a) == a[1] > 0 \/ (a[1] = 0 /\ a[2] > 0)


---------------------------------------------------------------------------
(* library functions the function body calls, on the values Init can draw *)

(* std::exp, rounded to a short fraction; exp(-1000) underflows to 0 *)
exp(a) ==
    CASE a = Zero -> One
      [] a = <<-1, 2>> -> <<3, 5>>
      [] a = NegOne -> <<3, 8>>
      [] a = <<-1000, 1>> -> Zero
      [] a = NegInfinity -> Zero
      [] OTHER -> NaN

RECURSIVE PowInt(_, _)
PowInt(b, k) == IF k = 0 THEN One ELSE Mul(b, PowInt(b, k - 1))

(* std::pow for the whole-number exponents 0.5 * nu - 1 takes here *)
pow(b, e) == IF e[2] = 1 /\ e[1] >= 0 THEN PowInt(b, e[1]) ELSE NaN

RECURSIVE Factorial(_)
Factorial(k) == IF k <= 0 THEN 1 ELSE k * Factorial(k - 1)

(* tgamma(a) = (a - 1)! at the whole numbers a >= 1 *)
tgamma(a) == IF a[2] = 1 /\ a[1] >= 1 THEN <<Factorial(a[1] - 1), 1>> ELSE NaN

(* digamma(1) = -0.577.., digamma(2) = 0.422.., as short fractions *)
digamma(a) ==
    CASE a = One -> <<-3, 5>>
      [] a = Two -> <<2, 5>>
      [] OTHER -> NaN

RECURSIVE ExpSeries(_, _)
ExpSeries(z, k) ==
    IF k = 0 THEN One
    ELSE Add(ExpSeries(z, k - 1), Div(PowInt(z, k), <<Factorial(k), 1>>))

(* regularized upper incomplete gamma function Q(a, z); at a whole number a   *)
(* it is exp(-z) * sum_{k < a} z^k / k!                                       *)
gamma_q(a, z) ==
    IF ~(a[2] = 1 /\ a[1] >= 1) \/ IsNaN(z) THEN NaN
    ELSE IF z = Infinity THEN Zero
    ELSE Mul(exp(Neg(z)), ExpSeries(z, a[1] - 1))

(* d/da of the upper incomplete gamma integral Gamma(a, z), as short          *)
(* fractions; it underflows to 0 with exp(-z) and is NaN at z = 0 (log z)     *)
DGammaDa(a, z) ==
    CASE a = One /\ z = OneHalf -> <<1, 8>>
      [] a = One /\ z = One -> <<1, 5>>
      [] a = Two /\ z = OneHalf -> <<1, 2>>
      [] a = Two /\ z = One -> <<3, 5>>
      [] a \in {One, Two} /\ z = <<1000, 1>> -> Zero
      [] OTHER -> NaN

(* dQ/da from Gamma(a) and digamma(a): (dGamma(a,z)/da) / g - Q(a,z) * dig *)
grad_reg_inc_gamma(a, z, g, dig) ==
    Sub(Div(DGammaDa(a, z), g), Mul(gamma_q(a, z), dig))

---------------------------------------------------------------------------
(* operands: a scalar (is_vector = FALSE, one element) or a container *)

length(x) == Len(x.elems)

size_zero(a, b) == length(a) = 0 \/ length(b) = 0

MaxOf(i, j) == IF i >= j THEN i ELSE j

max_size(a, b) == MaxOf(length(a), length(b))

(* scalar_seq_view<T>::operator[] with a 0-based index: a scalar ignores it *)
scalar_seq_view(x, i) == IF x.is_vector THEN x.elems[i + 1] ELSE x.elems[1]

(* the slot index i of partials_ and of a VectorBuilder addresses: a scalar  *)
(* operand has one slot, whatever the index                                   *)
SlotOf(x, i) == IF x.is_vector THEN i + 1 ELSE 1

check_positive_finite(x) ==
    \A i \in 1..length(x) : GtZero(x.elems[i]) /\ IsFinite(x.elems[i])

check_not_nan(x) == \A i \in 1..length(x) : ~IsNaN(x.elems[i])

check_nonnegative(x) == \A i \in 1..length(x) : GeZero(x.elems[i])

(* every container operand has the size of the largest container operand *)
check_consistent_sizes(a, b) ==
    LET m == MaxOf(IF a.is_vector THEN length(a) ELSE 0,
                   IF b.is_vector THEN length(b) ELSE 0)
    IN  /\ (a.is_vector => length(a) = m)
        /\ (b.is_vector => length(b) = m)

(* operands_and_partials: one zero partial per element of a differentiable   *)
(* operand, none for a constant one                                           *)
ZeroPartials(x, is_constant) ==
    IF is_constant THEN <<>> ELSE [i \in 1..length(x) |-> Zero]

---------------------------------------------------------------------------
(* the call *)

VARIABLES
    y,                \* the variate operand: [is_vector, elems]
    nu,               \* the degrees-of-freedom operand: [is_vector, elems]
    is_constant_y,    \* is_constant_struct<T_y>::value
    is_constant_nu,   \* is_constant_struct<T_dof>::value
    pc,               \* the statement the call is at
    P,                \* the running product
    N,                \* max_size(y, nu)
    n,                \* the main loop's index
    edge1_partials,   \* ops_partials.edge1_.partials_
    edge2_partials,   \* ops_partials.edge2_.partials_
    gamma_vec,        \* VectorBuilder gamma_vec
    digamma_vec,      \* VectorBuilder digamma_vec
    ret               \* what the call returned or threw

vars == <<y, nu, is_constant_y, is_constant_nu, pc, P, N, n, edge1_partials,
          edge2_partials, gamma_vec, digamma_vec, ret>>

(* the values an element of y, and of nu, is drawn from *)
YVals == {NaN, NegOne, Zero, Tiny, OneHalf, One, Infinity}

NuVals == {NaN, NegTwo, Zero, Two, Four, Infinity}

Operands(V) ==
    {[is_vector |-> FALSE, elems |-> <<v>>] : v \in V}
    \cup {[is_vector |-> TRUE, elems |-> s] :
             s \in UNION {[1..k -> V] : k \in 0..MaxLen}}

NoReturn ==
    [kind |-> "none", value |-> NaN, error |-> "", check |-> "",
     has_grad_y |-> FALSE, grad_y |-> <<>>,
     has_grad_nu |-> FALSE, grad_nu |-> <<>>]

(* return of a plain double: a value that carries no gradient *)
ReturnConstant(v) == [NoReturn EXCEPT !.kind = "value", !.value = v]

(* a check_* function throwing *)
Throw(e, c) == [NoReturn EXCEPT !.kind = "error", !.error = e, !.check = c]

(* operands_and_partials::build: the value with the partials of every        *)
(* differentiable operand                                                     *)
build(v, p1, p2) ==
    [NoReturn EXCEPT !.kind = "value", !.value = v,
                     !.has_grad_y = ~is_constant_y, !.grad_y = p1,
                     !.has_grad_nu = ~is_constant_nu, !.grad_nu = p2]

Init ==
    /\ y \in Operands(YVals)
    /\ nu \in Operands(NuVals)
    /\ is_constant_y \in BOOLEAN
    /\ is_constant_nu \in BOOLEAN
    /\ pc = "size_zero"
    /\ P = One
    /\ N = 0
    /\ n = 0
    /\ edge1_partials = <<>>
    /\ edge2_partials = <<>>
    /\ gamma_vec = <<>>
    /\ digamma_vec = <<>>
    /\ ret = NoReturn

Inputs == <<y, nu, is_constant_y, is_constant_nu>>

Locals == <<P, N, n, edge1_partials, edge2_partials, gamma_vec, digamma_vec>>

(* a validation step: pass to the next statement or throw *)
CheckStep(here, ok, next, e) ==
    /\ pc = here
    /\ IF ok THEN pc' = next /\ ret' = ret
             ELSE pc' = "done" /\ ret' = Throw(e, here)
    /\ UNCHANGED <<Inputs, Locals>>

(* fault: the early return taken only when both operands are empty *)
SizeZeroBothEmpty ==
    /\ pc = "size_zero"
    /\ IF length(y) = 0 /\ length(nu) = 0
       THEN pc' = "done" /\ ret' = ReturnConstant(One)
       ELSE pc' = "check_positive_finite" /\ ret' = ret
    /\ UNCHANGED <<Inputs, Locals>>

(* if (size_zero(y, nu)) return 1.0; *)
SizeZero ==
    /\ pc = "size_zero"
    /\ IF size_zero(y, nu)
       THEN pc' = "done" /\ ret' = ReturnConstant(One)
       ELSE pc' = "check_positive_finite" /\ ret' = ret
    /\ UNCHANGED <<Inputs, Locals>>

(* fault: the check of nu left out *)
CheckPositiveFiniteOmitted ==
    CheckStep("check_positive_finite", TRUE, "check_not_nan", "domain_error")

CheckPositiveFinite ==
    CheckStep("check_positive_finite", check_positive_finite(nu),
              "check_not_nan", "domain_error")

(* fault: the NaN check of y left out *)
CheckNotNanOmitted ==
    CheckStep("check_not_nan", TRUE, "check_nonnegative", "domain_error")

CheckNotNan ==
    CheckStep("check_not_nan", check_not_nan(y),
              "check_nonnegative", "domain_error")

CheckNonnegative ==
    CheckStep("check_nonnegative", check_nonnegative(y),
              "check_consistent_sizes", "domain_error")

CheckConsistentSizes ==
    CheckStep("check_consistent_sizes", check_consistent_sizes(y, nu),
              "setup", "invalid_argument")

(* N = max_size(y, nu); operands_and_partials ops_partials(y, nu); *)
Setup ==
    /\ pc = "setup"
    /\ N' = max_size(y, nu)
    /\ edge1_partials' = ZeroPartials(y, is_constant_y)
    /\ edge2_partials' = ZeroPartials(nu, is_constant_nu)
    /\ pc' = "zero_scan"
    /\ UNCHANGED <<Inputs, P, n, gamma_vec, digamma_vec, ret>>

(* fault: only the first element of y is tested *)
HasZeroFirstOnly == scalar_seq_view(y, 0) = Zero

(* value_of(y_vec[i]) == 0 for some i < length(y) *)
HasZero == \E i \in 0..(length(y) - 1) : scalar_seq_view(y, i) = Zero

(* for (i < length(y)) if (y_vec[i] == 0) return ops_partials.build(0.0); *)
ZeroScan ==
    /\ pc = "zero_scan"
    /\ IF HasZero
       THEN pc' = "done" /\ ret' = build(Zero, edge1_partials, edge2_partials)
       ELSE pc' = "precompute" /\ ret' = ret
    /\ UNCHANGED <<Inputs, Locals>>

(* fault: the caches filled for a constant nu too *)
PrecomputeUnguarded ==
    /\ pc = "precompute"
    /\ gamma_vec' = [i \in 1..length(nu) |->
                        tgamma(Mul(OneHalf, scalar_seq_view(nu, i - 1)))]
    /\ digamma_vec' = [i \in 1..length(nu) |->
                        digamma(Mul(OneHalf, scalar_seq_view(nu, i - 1)))]
    /\ pc' = "loop"
    /\ UNCHANGED <<Inputs, P, N, n, edge1_partials, edge2_partials, ret>>

(* gamma_vec[i] = tgamma(0.5 * nu[i]); digamma_vec[i] = digamma(0.5 * nu[i]) *)
(* for a differentiable nu only                                              *)
Precompute ==
    /\ pc = "precompute"
    /\ IF ~is_constant_nu
       THEN /\ gamma_vec' = [i \in 1..length(nu) |->
                                tgamma(Mul(OneHalf, scalar_seq_view(nu, i - 1)))]
            /\ digamma_vec' = [i \in 1..length(nu) |->
                                digamma(Mul(OneHalf, scalar_seq_view(nu, i - 1)))]
       ELSE UNCHANGED <<gamma_vec, digamma_vec>>
    /\ pc' = "loop"
    /\ UNCHANGED <<Inputs, P, N, n, edge1_partials, edge2_partials, ret>>

y_dbl(k) == scalar_seq_view(y, k)

y_inv_dbl(k) == Div(One, y_dbl(k))

nu_dbl(k) == scalar_seq_view(nu, k)

(* fault: nu passed to gamma_q without halving *)
PnWholeNu(k) == gamma_q(nu_dbl(k), Mul(OneHalf, y_inv_dbl(k)))

(* Pn = gamma_q(0.5 * nu_dbl, 0.5 * y_inv_dbl) *)
Pn(k) == gamma_q(Mul(OneHalf, nu_dbl(k)), Mul(OneHalf, y_inv_dbl(k)))

(* 0.5 * y_inv * y_inv * exp(-0.5 * y_inv) * pow(0.5 * y_inv, 0.5 * nu - 1)  *)
(*   / tgamma(0.5 * nu) / Pn                                                  *)
Edge1Term(k) ==
    Div(Div(Mul(Mul(Mul(Mul(OneHalf, y_inv_dbl(k)), y_inv_dbl(k)),
                    exp(Mul(Neg(OneHalf), y_inv_dbl(k)))),
                pow(Mul(OneHalf, y_inv_dbl(k)),
                    Sub(Mul(OneHalf, nu_dbl(k)), One))),
            tgamma(Mul(OneHalf, nu_dbl(k)))),
        Pn(k))

(* 0.5 * grad_reg_inc_gamma(0.5 * nu, 0.5 * y_inv, gamma_vec[n],             *)
(*                          digamma_vec[n]) / Pn                              *)
Edge2Term(k) ==
    Div(Mul(OneHalf,
            grad_reg_inc_gamma(Mul(OneHalf, nu_dbl(k)),
                               Mul(OneHalf, y_inv_dbl(k)),
                               gamma_vec[SlotOf(nu, k)],
                               digamma_vec[SlotOf(nu, k)])),
        Pn(k))

(* fault: no position is skipped *)
IsSkippedNever(k) == FALSE

(* value_of(y_vec[n]) == infinity *)
IsSkipped(k) == y_dbl(k) = Infinity

(* fault: partials_[n] = term *)
AccumulateOverwrite(partials, x, is_constant, k, term) ==
    IF is_constant THEN partials
    ELSE [partials EXCEPT ![SlotOf(x, k)] = term]

(* partials_[n] += term, for a differentiable operand only *)
Accumulate(partials, x, is_constant, k, term) ==
    IF is_constant THEN partials
    ELSE [partials EXCEPT ![SlotOf(x, k)] = Add(@, term)]

(* n++ and the loop test n < N *)
LoopAdvance ==
    /\ n' = n + 1
    /\ pc' = IF n + 1 < N THEN "loop" ELSE "finalize_y"

(* one iteration with y_vec[n] == infinity: continue *)
LoopSkip ==
    /\ pc = "loop"
    /\ IsSkipped(n)
    /\ LoopAdvance
    /\ UNCHANGED <<Inputs, P, N, edge1_partials, edge2_partials, gamma_vec,
                   digamma_vec, ret>>

(* fault: P = Pn *)
LoopAccumulateOverwrite ==
    /\ pc = "loop"
    /\ ~IsSkipped(n)
    /\ P' = Pn(n)
    /\ edge1_partials' =
           Accumulate(edge1_partials, y, is_constant_y, n, Edge1Term(n))
    /\ edge2_partials' =
           Accumulate(edge2_partials, nu, is_constant_nu, n, Edge2Term(n))
    /\ LoopAdvance
    /\ UNCHANGED <<Inputs, N, gamma_vec, digamma_vec, ret>>

(* one iteration of the main loop that accumulates *)
LoopAccumulate ==
    /\ pc = "loop"
    /\ ~IsSkipped(n)
    /\ P' = Mul(P, Pn(n))
    /\ edge1_partials' =
           Accumulate(edge1_partials, y, is_constant_y, n, Edge1Term(n))
    /\ edge2_partials' =
           Accumulate(edge2_partials, nu, is_constant_nu, n, Edge2Term(n))
    /\ LoopAdvance
    /\ UNCHANGED <<Inputs, N, gamma_vec, digamma_vec, ret>>

(* partials_[i] *= P for every i < length(x), for a differentiable operand *)
Scale(partials, x, is_constant) ==
    IF is_constant THEN partials
    ELSE [i \in 1..length(x) |-> Mul(partials[i], P)]

FinalizeY ==
    /\ pc = "finalize_y"
    /\ edge1_partials' = Scale(edge1_partials, y, is_constant_y)
    /\ pc' = "finalize_nu"
    /\ UNCHANGED <<Inputs, P, N, n, edge2_partials, gamma_vec, digamma_vec, ret>>

FinalizeNu ==
    /\ pc = "finalize_nu"
    /\ edge2_partials' = Scale(edge2_partials, nu, is_constant_nu)
    /\ pc' = "build"
    /\ UNCHANGED <<Inputs, P, N, n, edge1_partials, gamma_vec, digamma_vec, ret>>

(* return ops_partials.build(P); *)
Build ==
    /\ pc = "build"
    /\ ret' = build(P, edge1_partials, edge2_partials)
    /\ pc' = "done"
    /\ UNCHANGED <<Inputs, Locals>>

Next ==
    \/ SizeZero
    \/ CheckPositiveFinite
    \/ CheckNotNan
    \/ CheckNonnegative
    \/ CheckConsistentSizes
    \/ Setup
    \/ ZeroScan
    \/ Precompute
    \/ LoopSkip
    \/ LoopAccumulate
    \/ FinalizeY
    \/ FinalizeNu
    \/ Build

Spec == Init /\ [][Next]_vars

---------------------------------------------------------------------------
(* vocabulary of the properties, stated on the operands' values *)

Returned == pc = "done"

EmptyCall == Len(y.elems) = 0 \/ Len(nu.elems) = 0

(* nu has an element that is not both finite and strictly positive *)
NuViolation == \E i \in 1..Len(nu.elems) : nu.elems[i][2] = 0 \/ nu.elems[i][1] <= 0

YIsNaN == \E i \in 1..Len(y.elems) : y.elems[i] = NaN

YIsNegative == \E i \in 1..Len(y.elems) : y.elems[i][1] < 0

DomainViolation == NuViolation \/ YIsNaN \/ YIsNegative

(* two containers of different sizes *)
SizeMismatch ==
    y.is_vector /\ nu.is_vector /\ Len(y.elems) # Len(nu.elems)

ValidCall == ~EmptyCall /\ ~DomainViolation /\ ~SizeMismatch

YHasZero == \E i \in 1..Len(y.elems) : y.elems[i] = Zero

BroadcastN == MaxOf(Len(y.elems), Len(nu.elems))

(* element at broadcast position pos in 1..BroadcastN: a length-1 operand    *)
(* supplies its only element everywhere                                       *)
ElemAt(x, pos) == IF Len(x.elems) = 1 THEN x.elems[1] ELSE x.elems[pos]

(* the element of x that broadcast position pos maps to *)
SlotAt(x, pos) == IF Len(x.elems) = 1 THEN 1 ELSE pos

SkippedAt(pos) == ElemAt(y, pos) = Infinity

(* Q(nu(n)/2, 1/(2*y(n))) *)
FactorAt(pos) ==
    gamma_q(Div(ElemAt(nu, pos), Two), Div(One, Mul(Two, ElemAt(y, pos))))

(* product of the factors of the non-skipped positions 1..k *)
RECURSIVE ProductUpTo(_)
ProductUpTo(k) ==
    IF k = 0 THEN One
    ELSE IF SkippedAt(k) THEN ProductUpTo(k - 1)
    ELSE Mul(ProductUpTo(k - 1), FactorAt(k))

AllZero(g) == \A i \in 1..Len(g) : g[i] = Zero

(* the gradient buffers of a return are exactly those of the differentiable  *)
(* operands, one slot per element of the operand                              *)
GradientShape ==
    /\ ret.has_grad_y = ~is_constant_y
    /\ ret.has_grad_nu = ~is_constant_nu
    /\ Len(ret.grad_y) = (IF is_constant_y THEN 0 ELSE Len(y.elems))
    /\ Len(ret.grad_nu) = (IF is_constant_nu THEN 0 ELSE Len(nu.elems))

NoGradient ==
    /\ ~ret.has_grad_y /\ ~ret.has_grad_nu
    /\ ret.grad_y = <<>> /\ ret.grad_nu = <<>>

---------------------------------------------------------------------------
(* C1: in a valid non-empty call, a y element equal to zero, at any          *)
(* position, makes the call return exactly 0 with every gradient slot of     *)
(* every differentiable operand exactly 0.                                   *)
C1_ZeroVariateReturnsZero ==
    (Returned /\ ValidCall /\ YHasZero) =>
        /\ ret.kind = "value"
        /\ ret.value = Zero
        /\ GradientShape
        /\ AllZero(ret.grad_y)
        /\ AllZero(ret.grad_nu)

(* a differentiable call returned with the zero in the second position,      *)
(* behind an element whose factor would divide by zero                        *)
C1_Witness ==
    /\ Returned
    /\ y = [is_vector |-> TRUE, elems |-> <<Tiny, Zero>>]
    /\ nu = [is_vector |-> TRUE, elems |-> <<Two, Four>>]
    /\ ~is_constant_y /\ ~is_constant_nu
    /\ ret.value = Zero
    /\ ret.grad_y = <<Zero, Zero>>

(* C2: in a valid non-empty call with no zero in y, the returned value is    *)
(* one scalar: the product of Q(nu(n)/2, 1/(2 y(n))) over the broadcast      *)
(* positions n with y(n) # +infinity, each taken once.                       *)
C2_ValueIsProductOfFactors ==
    (Returned /\ ValidCall /\ ~YHasZero) =>
        /\ ret.kind = "value"
        /\ ret.value = ProductUpTo(BroadcastN)

(* two different factors, 3/4 and 9/10, multiplied *)
C2_Witness ==
    /\ Returned
    /\ y = [is_vector |-> TRUE, elems |-> <<OneHalf, One>>]
    /\ nu = [is_vector |-> FALSE, elems |-> <<Four>>]
    /\ ret.value = <<27, 40>>

(* C3: an iteration of the main loop at a position with y(n) = +infinity     *)
(* leaves P and both gradient accumulators unchanged, and a valid call       *)
(* whose positions are all +infinity returns exactly 1 with every gradient   *)
(* slot 0.                                                                   *)
C3_InfinitySkipsPosition ==
    /\ [][(pc = "loop" /\ ElemAt(y, n + 1) = Infinity) =>
             /\ P' = P
             /\ edge1_partials' = edge1_partials
             /\ edge2_partials' = edge2_partials]_vars
    /\ [](  (Returned /\ ValidCall
               /\ \A k \in 1..BroadcastN : SkippedAt(k)) =>
                /\ ret.kind = "value"
                /\ ret.value = One
                /\ GradientShape
                /\ AllZero(ret.grad_y)
                /\ AllZero(ret.grad_nu))

(* the loop has just passed an infinite position after accumulating one *)
C3_Witness ==
    /\ pc = "finalize_y"
    /\ n = 2
    /\ y = [is_vector |-> TRUE, elems |-> <<One, Infinity>>]
    /\ ~is_constant_y /\ ~is_constant_nu
    /\ P # One
    /\ edge1_partials[1] # Zero
    /\ edge1_partials[2] = Zero

(* C4: a non-empty call with a domain violation ends with a domain error,    *)
(* one with only a size mismatch ends with an invalid-argument error, and    *)
(* neither ever reaches the set-up, the zero scan, the precompute or the     *)
(* loop: P, the partials and the caches are never touched and no value or    *)
(* gradient is returned.                                                     *)
C4_ValidationFailsBeforeComputation ==
    (~EmptyCall /\ (DomainViolation \/ SizeMismatch)) =>
        /\ pc \in {"size_zero", "check_positive_finite", "check_not_nan",
                   "check_nonnegative", "check_consistent_sizes", "done"}
        /\ P = One /\ N = 0 /\ n = 0
        /\ edge1_partials = <<>> /\ edge2_partials = <<>>
        /\ gamma_vec = <<>> /\ digamma_vec = <<>>
        /\ ret.kind \in {"none", "error"}
        /\ ret.value = NaN
        /\ NoGradient
        /\ (Returned =>
              /\ ret.kind = "error"
              /\ ret.error = (IF DomainViolation THEN "domain_error"
                              ELSE "invalid_argument"))

(* a size mismatch with a zero variate ended with the invalid-argument error *)
C4_Witness ==
    /\ Returned
    /\ y = [is_vector |-> TRUE, elems |-> <<Zero>>]
    /\ nu = [is_vector |-> TRUE, elems |-> <<Two, Four>>]
    /\ ~is_constant_y
    /\ ret.kind = "error"
    /\ ret.error = "invalid_argument"

(* C5: a call with an empty y or an empty nu returns exactly 1 with no       *)
(* gradient and no error, whatever the other operand holds.                  *)
C5_EmptyReturnsOne ==
    (Returned /\ EmptyCall) =>
        /\ ret.kind = "value"
        /\ ret.value = One
        /\ NoGradient

(* empty y against a nu that would fail validation and mismatch in size *)
C5_Witness ==
    /\ Returned
    /\ y = [is_vector |-> TRUE, elems |-> <<>>]
    /\ nu = [is_vector |-> TRUE, elems |-> <<NaN, Zero>>]
    /\ ~is_constant_y /\ ~is_constant_nu
    /\ ret.kind = "value"

(* what a call on one scalar y and one scalar nu returns *)
ScalarCdf(yv, nuv) ==
    IF yv = Zero THEN Zero
    ELSE IF yv = Infinity THEN One
    ELSE gamma_q(Div(nuv, Two), Div(One, Mul(Two, yv)))

BothScalar == ~y.is_vector /\ ~nu.is_vector

PairWithScalarNu == y.is_vector /\ Len(y.elems) = 2 /\ ~nu.is_vector

(* C6 as stated: the value of cdf([y1, y2], nu) equals [cdf(y1, nu),         *)
(* cdf(y2, nu)] element-wise. The call returns the one scalar ret.value, so  *)
(* the value it carries for position i is ret.value, and the statement asks  *)
(* it to equal the scalar call on y_i for both positions.                    *)
C6_ValueIsElementwise ==
    (Returned /\ ValidCall /\ PairWithScalarNu) =>
        \A i \in 1..2 : ret.value = ScalarCdf(y.elems[i], nu.elems[1])

(* C6 amended: a scalar call returns ScalarCdf(y, nu), and the value of      *)
(* cdf([y1, y2], nu) is the single scalar cdf(y1, nu) * cdf(y2, nu).         *)
C6_ValueIsProductOfScalarCalls ==
    /\ (Returned /\ ValidCall /\ BothScalar) =>
           /\ ret.kind = "value"
           /\ ret.value = ScalarCdf(y.elems[1], nu.elems[1])
    /\ (Returned /\ ValidCall /\ PairWithScalarNu) =>
           /\ ret.kind = "value"
           /\ ret.value = Mul(ScalarCdf(y.elems[1], nu.elems[1]),
                              ScalarCdf(y.elems[2], nu.elems[1]))

(* cdf([1/2, 1], 2) returned 3/8 * 3/5 *)
C6_Witness ==
    /\ Returned
    /\ y = [is_vector |-> TRUE, elems |-> <<OneHalf, One>>]
    /\ nu = [is_vector |-> FALSE, elems |-> <<Two>>]
    /\ ret.kind = "value"
    /\ ret.value = <<9, 40>>

(* no buffer of a constant operand is ever allocated or written *)
ConstantHasNoBuffer ==
    /\ is_constant_y => edge1_partials = <<>>
    /\ is_constant_nu =>
           (edge2_partials = <<>> /\ gamma_vec = <<>> /\ digamma_vec = <<>>)
    /\ is_constant_y => (~ret.has_grad_y /\ ret.grad_y = <<>>)
    /\ is_constant_nu => (~ret.has_grad_nu /\ ret.grad_nu = <<>>)

DFactorDy(pos) ==
    LET yi == Div(One, ElemAt(y, pos))
        hn == Div(ElemAt(nu, pos), Two)
    IN  Div(Mul(Mul(Mul(OneHalf, Mul(yi, yi)), exp(Neg(Div(yi, Two)))),
                pow(Div(yi, Two), Sub(hn, One))),
            tgamma(hn))

(* d Pn / d nu(n): 0.5 dQ/da at a = nu/2 *)
DFactorDnu(pos) ==
    LET hn == Div(ElemAt(nu, pos), Two)
    IN  Mul(OneHalf,
            grad_reg_inc_gamma(hn, Div(One, Mul(Two, ElemAt(y, pos))),
                               tgamma(hn), digamma(hn)))

(* the contribution of position pos to the slot of operand "y" or "nu" *)
ContributionAt(arg, pos) ==
    Div(IF arg = "y" THEN DFactorDy(pos) ELSE DFactorDnu(pos), FactorAt(pos))

(* the contributions of the non-skipped positions k..BroadcastN that map to  *)
(* slot i, added from the last position backwards                            *)
RECURSIVE SumFrom(_, _, _)
SumFrom(arg, i, k) ==
    IF k > BroadcastN THEN Zero
    ELSE IF SkippedAt(k) \/ SlotAt(IF arg = "y" THEN y ELSE nu, k) # i
         THEN SumFrom(arg, i, k + 1)
    ELSE Add(ContributionAt(arg, k), SumFrom(arg, i, k + 1))

SharedSlotY == ~is_constant_y /\ Len(y.elems) = 1 /\ BroadcastN > 1

SharedSlotNu == ~is_constant_nu /\ Len(nu.elems) = 1 /\ BroadcastN > 1

(* C8: the single slot of a differentiable length-1 operand broadcast over   *)
(* N > 1 positions holds, when the loop ends, the sum of the contributions   *)
(* of all non-skipped positions, in whatever order they are added, and the   *)
(* returned slot is that sum times the returned value.                       *)
C8_SharedSlotSumsContributions ==
    /\ (pc = "finalize_y" /\ SharedSlotY) =>
           edge1_partials = <<SumFrom("y", 1, 1)>>
    /\ (pc = "finalize_y" /\ SharedSlotNu) =>
           edge2_partials = <<SumFrom("nu", 1, 1)>>
    /\ (Returned /\ ValidCall /\ ~YHasZero /\ SharedSlotY) =>
           ret.grad_y = <<Mul(SumFrom("y", 1, 1), ret.value)>>
    /\ (Returned /\ ValidCall /\ ~YHasZero /\ SharedSlotNu) =>
           ret.grad_nu = <<Mul(SumFrom("nu", 1, 1), ret.value)>>

(* cdf([1/2, 1], nu) with a differentiable scalar nu ended its loop with two *)
(* finite non-zero contributions in the one slot                             *)
C8_Witness ==
    /\ pc = "finalize_y"
    /\ y = [is_vector |-> TRUE, elems |-> <<OneHalf, One>>]
    /\ nu = [is_vector |-> FALSE, elems |-> <<Two>>]
    /\ ~is_constant_nu
    /\ edge2_partials = <<Add(ContributionAt("nu", 1), ContributionAt("nu", 2))>>
    /\ IsFinite(ContributionAt("nu", 1)) /\ ContributionAt("nu", 1) # Zero
    /\ IsFinite(ContributionAt("nu", 2)) /\ ContributionAt("nu", 2) # Zero

(* product of the factors of the non-skipped positions 1..k other than pos *)
RECURSIVE ProductOfOthers(_, _)
ProductOfOthers(pos, k) ==
    IF k = 0 THEN One
    ELSE IF SkippedAt(k) \/ k = pos THEN ProductOfOthers(pos, k - 1)
    ELSE Mul(ProductOfOthers(pos, k - 1), FactorAt(k))

(* d P / d (element i of arg): the sum over the non-skipped positions k..N   *)
(* that map to i of dPn times the product of the other factors               *)
RECURSIVE DProductFrom(_, _, _)
DProductFrom(arg, i, k) ==
    IF k > BroadcastN THEN Zero
    ELSE IF SkippedAt(k) \/ SlotAt(IF arg = "y" THEN y ELSE nu, k) # i
         THEN DProductFrom(arg, i, k + 1)
    ELSE Add(Mul(IF arg = "y" THEN DFactorDy(k) ELSE DFactorDnu(k),
                 ProductOfOthers(k, BroadcastN)),
             DProductFrom(arg, i, k + 1))

GradientIsDerivative ==
    /\ ret.kind = "value"
    /\ GradientShape
    /\ \A i \in 1..Len(ret.grad_y) : ret.grad_y[i] = DProductFrom("y", i, 1)
    /\ \A i \in 1..Len(ret.grad_nu) : ret.grad_nu[i] = DProductFrom("nu", i, 1)

(* C9: after finalization every slot i of a differentiable operand equals    *)
(* the partial derivative of the product P: the sum over the non-skipped     *)
(* positions n mapping to i of dPn times the product of the other factors,   *)
(* for every value of the factors in [0, 1].                                 *)
C9_GradientIsDerivativeOfProduct ==
    (Returned /\ ValidCall /\ ~YHasZero) => GradientIsDerivative

(* the same restricted to calls none of whose factors is zero *)
C9_DerivativeWhenNoFactorIsZero ==
    (Returned /\ ValidCall /\ ~YHasZero
       /\ \A k \in 1..BroadcastN : SkippedAt(k) \/ FactorAt(k) # Zero)
        => GradientIsDerivative

(* the outcome the first applicable rule gives *)
FirstRuleOutcome ==
    IF EmptyCall THEN ret.kind = "value" /\ ret.value = One
    ELSE IF NuViolation
         THEN /\ ret.kind = "error" /\ ret.error = "domain_error"
              /\ ret.check = "check_positive_finite"
    ELSE IF YIsNaN
         THEN /\ ret.kind = "error" /\ ret.error = "domain_error"
              /\ ret.check = "check_not_nan"
    ELSE IF YIsNegative
         THEN /\ ret.kind = "error" /\ ret.error = "domain_error"
              /\ ret.check = "check_nonnegative"
    ELSE IF SizeMismatch
         THEN /\ ret.kind = "error" /\ ret.error = "invalid_argument"
              /\ ret.check = "check_consistent_sizes"
    ELSE IF YHasZero THEN ret.kind = "value" /\ ret.value = Zero
    ELSE ret.kind = "value" /\ ret.value = ProductUpTo(BroadcastN)

(* C10: the outcome of a call is that of the first applicable rule in the    *)
(* order empty operand, nu not positive finite, y NaN, y negative, size      *)
(* mismatch, zero variate, accumulation skipping +infinity.                  *)
C10_FirstApplicableRuleDecides ==
    Returned => FirstRuleOutcome

(* a zero and a NaN in y, with mismatched sizes: the NaN check decided *)
C10_Witness ==
    /\ Returned
    /\ y = [is_vector |-> TRUE, elems |-> <<Zero, NaN>>]
    /\ nu = [is_vector |-> TRUE, elems |-> <<Two>>]
    /\ ret.kind = "error"
    /\ ret.check = "check_not_nan"

===========================================================================
